---- MODULE Spec2Model ----
(***************************************************************************)
(* Model of the Curriculum Comparison App (src/app.py).                    *)
(*                                                                         *)
(* One execution of main() is a request: it renders the widgets, validates *)
(* the inputs, loads the service-account credentials, fetches the sheet,   *)
(* builds the agents, tasks and crew, runs crew.kickoff and renders the    *)
(* result.  Text is modelled as a sequence of one-character strings so     *)
(* that find, slicing, strip and split are computed on characters.         *)
(***************************************************************************)
EXTENDS Integers, Sequences, FiniteSets, TLC

VARIABLES
    pc,               \* position of the current execution of main()
    uploaded_pdf,     \* value of st.file_uploader: None or the uploaded file
    pressed,          \* value of st.button: the trigger was pressed
    spreadsheet_name, \* value of the first st.text_input
    worksheet_name,   \* value of the second st.text_input
    gsheet_data,      \* local of main(): None or the fetched grid
    crew,             \* None or the Crew built at lines 146-150
    nextTask,         \* kickoff: index in crew.tasks of the next task to start
    running,          \* kickoff: tasks started and not yet finished
    completed,        \* kickoff: tasks that have finished
    toolCalls,        \* kickoff: number of PDFExtractorTool._run calls made
    curriculum_items, \* None or the list returned by the last _run call
    result,           \* None or the value returned by crew.kickoff
    log               \* calls and UI elements of this execution, in order

vars == <<pc, pressed, uploaded_pdf, spreadsheet_name, worksheet_name, gsheet_data,
          crew, nextTask, running, completed, toolCalls, curriculum_items,
          result, log>>

----------------------------------------------------------------------------
(* Bounds *)

MaxPages == 3
MaxToolCalls == 1

----------------------------------------------------------------------------
(* Python values *)

None == [some |-> FALSE, val |-> <<>>]
Some(v) == [some |-> TRUE, val |-> v]

Min(S) == CHOOSE x \in S : \A y \in S : x <= y
Max(S) == CHOOSE x \in S : \A y \in S : x >= y

Whitespace == {" ", "\n", "\t"}

\* "Curriculum:"
StartMarker == <<"C","u","r","r","i","c","u","l","u","m",":">>
\* "End of Curriculum"
EndMarker == <<"E","n","d"," ","o","f"," ","C","u","r","r","i","c","u","l","u","m">>

\* a slice bound as Python clamps it
PyIndex(i, n) == IF i < 0 THEN (IF i + n < 0 THEN 0 ELSE i + n)
                          ELSE (IF i > n THEN n ELSE i)

\* str.find(sub, start): lowest index >= start (clamped as a slice bound)
\* at which sub occurs, or -1
Find(text, sub, start) ==
    LET hits == {i \in PyIndex(start, Len(text))..(Len(text) - Len(sub)) :
                    \A k \in 1..Len(sub) : text[i + k] = sub[k]}
    IN IF hits = {} THEN -1 ELSE Min(hits)

\* text[start:end]
Slice(text, start, end) ==
    LET s == PyIndex(start, Len(text))
        e == PyIndex(end, Len(text))
    IN IF s >= e THEN <<>> ELSE SubSeq(text, s + 1, e)

\* str.strip()
Strip(s) ==
    LET keep == {i \in 1..Len(s) : s[i] \notin Whitespace}
    IN IF keep = {} THEN <<>> ELSE SubSeq(s, Min(keep), Max(keep))

\* str.split("\n")
RECURSIVE Split(_)
Split(s) ==
    LET nl == Find(s, <<"\n">>, 0)
    IN IF nl = -1 THEN <<s>>
       ELSE <<Slice(s, 0, nl)>> \o Split(Slice(s, nl + 1, Len(s)))

\* for page in pdf.pages: text += page.extract_text() or ""
RECURSIVE ConcatPages(_)
ConcatPages(pages) ==
    IF pages = <<>> THEN <<>>
    ELSE (IF pages[1].some THEN pages[1].val ELSE <<>>) \o ConcatPages(Tail(pages))

StartOffsetNoLen(text) == Find(text, StartMarker, 0)

StartOffsetEmptyOnMissing(text) ==
    IF Find(text, StartMarker, 0) = -1 THEN Len(text)
    ELSE Find(text, StartMarker, 0) + Len(StartMarker)

\* line 33
StartOffset(text) == Find(text, StartMarker, 0) + Len(StartMarker)

EndOffsetNoDefault(text, start) == Find(text, EndMarker, start)

\* lines 34-36

EndOffset(text, start) ==
    LET end == Find(text, EndMarker, start)
    IN IF end = -1 THEN Len(text) ELSE end

RECURSIVE StripAll(_)
StripAll(items) ==
    IF items = <<>> THEN <<>> ELSE <<Strip(Head(items))>> \o StripAll(Tail(items))

\* [item.strip() for item in curriculum_text.split("\n") if item.strip()]
CurriculumItems(text) ==
    LET start == StartOffset(text)
        end == EndOffset(text, start)
        curriculum_text == Strip(Slice(text, start, end))
    IN SelectSeq(StripAll(Split(curriculum_text)), LAMBDA item : item # <<>>)

\* PDFExtractorTool._run
Run(pdf_file) == CurriculumItems(ConcatPages(pdf_file))

----------------------------------------------------------------------------
(* The world outside the program *)

\* texts that page.extract_text() can return for one page (None included)
PageTexts ==
    { None,
      Some(StartMarker),
      Some(EndMarker),
      Some(<<" ","M","L"," ","\n">>),
      Some(<<"\n","A","I","\n"," ","\n","D","L"," ">>),
      Some(<<"O","v","e","r","v","i","e","w","\n">>),
      Some(<<":">>) }

RECURSIVE SeqsUpTo(_, _)
SeqsUpTo(S, n) ==
    IF n = 0 THEN {<<>>}
    ELSE LET shorter == SeqsUpTo(S, n - 1)
         IN shorter \cup {Append(q, x) : q \in shorter, x \in S}

\* the files the uploader can hold: their pages' texts
PdfFiles == SeqsUpTo(PageTexts, MaxPages)

SpreadsheetNames == {"", "Master_Curriculums", "No_Such_Spreadsheet"}
WorksheetNames == {"", "CyberSecurity", "No_Such_Worksheet"}

\* what exists on the remote service
SpreadsheetExists(name) == name = "Master_Curriculums"
WorksheetExists(name) == name = "CyberSecurity"

\* grids that sheet.get_all_values() can return
Grids == { <<>>, << <<"Term 1", "ML">> >> }

----------------------------------------------------------------------------
(* The log of one execution *)

E(op, arg) == <<op, arg>>

Has(e) == \E i \in 1..Len(log) : log[i] = e

HasOp(op) == \E i \in 1..Len(log) : log[i][1] = op

\* every occurrence of b has an occurrence of a before it
Precedes(a, b) ==
    \A j \in 1..Len(log) : log[j] = b => \E i \in 1..(j - 1) : log[i] = a

\* lines 58-65
WidgetLog == << E("st.title", "Curriculum Comparison App"),
                E("st.file_uploader", "Upload PDF Brochure"),
                E("st.text_input", "Spreadsheet Name"),
                E("st.text_input", "Worksheet Name"),
                E("st.button", "Run Comparison") >>

\* lines 160-170
SidebarLog == << E("st.sidebar.header", "Setup Instructions"),
                 E("st.sidebar.write", "instructions"),
                 E("st.sidebar.page_link", "Master_Curriculums") >>

----------------------------------------------------------------------------
(* The crew configuration, lines 91-150 *)

\* tools=[pdf_tool] at line 98; the other agents have no tools
AgentTools == [pdf_extractor |-> {"pdf_tool"},
               gsheet_extractor |-> {},
               comparator |-> {}]

\* agent= at lines 122, 128, 140
TaskAgent == [task1 |-> "pdf_extractor",
              task2 |-> "gsheet_extractor",
              task3 |-> "comparator"]

\* context= at line 142
TaskContext == [task1 |-> {}, task2 |-> {}, task3 |-> {"task1", "task2"}]

\* agents= at line 147
CrewAgents == <<"pdf_extractor", "gsheet_extractor", "comparator">>

CrewTasksSwapped == <<"task1", "task3", "task2">>

\* tasks= at line 148
CrewTasks == <<"task1", "task2", "task3">>

\* process= at line 149
CrewProcess == "sequential"

ConstructLog == << E("PDFExtractorTool", "pdf_tool"),
                   E("Agent", "pdf_extractor"),
                   E("Agent", "gsheet_extractor"),
                   E("Agent", "comparator"),
                   E("Task", "task1"),
                   E("Task", "task2"),
                   E("Task", "task3"),
                   E("Crew", "crew") >>

----------------------------------------------------------------------------
(* Conditions of main() *)

InputsPresentPdfOnly(pdf, sname, wname) == pdf.some

\* line 66: uploaded_pdf and spreadsheet_name and worksheet_name
InputsPresent(pdf, sname, wname) == pdf.some /\ sname # "" /\ wname # ""

CredentialsNextNoReturn(ok) == "fetch"

\* lines 72-83: the except branch returns
CredentialsNext(ok) == IF ok THEN "fetch" ELSE "done"

FetchExceptValueEmptyGrid == Some(<<>>)

\* line 54: the value returned from the except branch
FetchExceptValue == None

FetchFailedNever(data) == FALSE

\* line 87: gsheet_data is None
FetchFailed(data) == ~data.some

\* the calls of fetch_gsheet_data, lines 47-50, in order
FetchCalls == <<"gspread.authorize", "client.open",
                "spreadsheet.worksheet", "sheet.get_all_values">>

\* the calls that can raise for these names; 5 stands for no failure
FailPoints(sname, wname) ==
    IF ~SpreadsheetExists(sname) THEN {1, 2}
    ELSE IF ~WorksheetExists(wname) THEN {1, 2, 3}
    ELSE {1, 2, 3, 4, 5}

CallLog(n) == [i \in 1..n |-> E("call", FetchCalls[i])]

----------------------------------------------------------------------------
(* Actions *)

Init ==
    /\ pc = "start"
    /\ pressed = FALSE
    /\ uploaded_pdf = None
    /\ spreadsheet_name = "Master_Curriculums"
    /\ worksheet_name = "CyberSecurity"
    /\ gsheet_data = None
    /\ crew = None
    /\ nextTask = 1
    /\ running = {}
    /\ completed = {}
    /\ toolCalls = 0
    /\ curriculum_items = None
    /\ result = None
    /\ log = <<>>

\* lines 58-65: the widgets are rendered and return the user's inputs
Widgets ==
    /\ pc = "start"
    /\ \E pdf \in {None} \cup {Some(f) : f \in PdfFiles},
          sname \in SpreadsheetNames, wname \in WorksheetNames,
          button \in BOOLEAN :
        /\ uploaded_pdf' = pdf
        /\ spreadsheet_name' = sname
        /\ worksheet_name' = wname
        /\ pressed' = button
        /\ pc' = IF button THEN "validate" ELSE "sidebar"
    /\ log' = WidgetLog
    /\ UNCHANGED <<gsheet_data, crew, nextTask, running, completed, toolCalls,
                   curriculum_items, result>>

\* lines 66-68
Validate ==
    /\ pc = "validate"
    /\ IF InputsPresent(uploaded_pdf, spreadsheet_name, worksheet_name)
       THEN /\ pc' = "credentials"
            /\ log' = log
       ELSE /\ pc' = "done"
            /\ log' = Append(log, E("st.error", "inputs"))
    /\ UNCHANGED <<pressed, uploaded_pdf, spreadsheet_name, worksheet_name, gsheet_data,
                   crew, nextTask, running, completed, toolCalls,
                   curriculum_items, result>>

\* lines 70-83
LoadCredentials ==
    /\ pc = "credentials"
    /\ \E ok \in BOOLEAN :
        /\ pc' = CredentialsNext(ok)
        /\ log' = log \o <<E("call", "st.secrets")>>
                      \o (IF ok THEN <<>>
                          ELSE <<E("raise", "st.secrets"),
                                 E("st.error", "credentials")>>)
    /\ UNCHANGED <<pressed, uploaded_pdf, spreadsheet_name, worksheet_name, gsheet_data,
                   crew, nextTask, running, completed, toolCalls,
                   curriculum_items, result>>

\* lines 86-88 with fetch_gsheet_data, lines 42-54
FetchGsheetData ==
    /\ pc = "fetch"
    /\ \E failAt \in FailPoints(spreadsheet_name, worksheet_name),
          grid \in Grids :
        LET data == IF failAt = 5 THEN Some(grid) ELSE FetchExceptValue
        IN /\ gsheet_data' = data
           /\ log' = log \o <<E("call", "fetch_gsheet_data")>>
                         \o CallLog(IF failAt = 5 THEN 4 ELSE failAt)
                         \o (IF failAt = 5 THEN <<>>
                             ELSE <<E("raise", FetchCalls[failAt]),
                                    E("st.error", "fetch")>>)
           /\ pc' = IF FetchFailed(data) THEN "done" ELSE "construct"
    /\ UNCHANGED <<pressed, uploaded_pdf, spreadsheet_name, worksheet_name,
                   crew, nextTask, running, completed, toolCalls,
                   curriculum_items, result>>

\* lines 91-150
Construct ==
    /\ pc = "construct"
    /\ crew' = Some([agents |-> CrewAgents, tasks |-> CrewTasks,
                     process |-> CrewProcess])
    /\ log' = log \o ConstructLog
    /\ pc' = "kickoff"
    /\ UNCHANGED <<pressed, uploaded_pdf, spreadsheet_name, worksheet_name, gsheet_data,
                   nextTask, running, completed, toolCalls,
                   curriculum_items, result>>

\* line 153: crew.kickoff is entered
Kickoff ==
    /\ pc = "kickoff"
    /\ pc' = "running"
    /\ nextTask' = 1
    /\ running' = {}
    /\ completed' = {}
    /\ log' = Append(log, E("call", "crew.kickoff"))
    /\ UNCHANGED <<pressed, uploaded_pdf, spreadsheet_name, worksheet_name, gsheet_data,
                   crew, toolCalls, curriculum_items, result>>

\* line 153: the crew starts its next task, in the order of crew.tasks;
\* a sequential process starts a task only when no other is running
StartTask ==
    /\ pc = "running"
    /\ nextTask <= Len(crew.val.tasks)
    /\ crew.val.process = "sequential" => running = {}
    /\ LET t == crew.val.tasks[nextTask]
       IN /\ t \notin running
          /\ running' = running \cup {t}
          /\ log' = Append(log, E("start", t))
    /\ nextTask' = nextTask + 1
    /\ UNCHANGED <<pressed, pc, uploaded_pdf, spreadsheet_name, worksheet_name,
                   gsheet_data, crew, completed, toolCalls, curriculum_items,
                   result>>

\* line 153 with lines 28-40: the agent of a running task calls its tool
ToolRun ==
    /\ pc = "running"
    /\ toolCalls < MaxToolCalls
    /\ \E t \in running : "pdf_tool" \in AgentTools[TaskAgent[t]]
    /\ curriculum_items' = Some(Run(uploaded_pdf.val))
    /\ toolCalls' = toolCalls + 1
    /\ log' = Append(log, E("call", "PDFExtractorTool._run"))
    /\ UNCHANGED <<pressed, pc, uploaded_pdf, spreadsheet_name, worksheet_name,
                   gsheet_data, crew, nextTask, running, completed, result>>

\* line 153: a running task ends; the last one ends kickoff, which returns
\* a CrewOutput or, with older versions of the library, a str
FinishTask ==
    /\ pc = "running"
    /\ \E t \in running, ok \in BOOLEAN, kind \in {"CrewOutput", "str"} :
        IF ok
        THEN /\ running' = running \ {t}
             /\ completed' = completed \cup {t}
             /\ log' = Append(log, E("end", t))
             /\ IF running = {t} /\ nextTask > Len(crew.val.tasks)
                THEN /\ pc' = "result_dict"
                     /\ result' = Some(<<kind>>)
                ELSE /\ pc' = pc
                     /\ kind = "CrewOutput"
                     /\ result' = result
        ELSE /\ kind = "CrewOutput"
             /\ running' = {}
             /\ completed' = completed
             /\ log' = Append(log, E("raise", t))
             /\ pc' = "except"
             /\ result' = result
    /\ UNCHANGED <<pressed, uploaded_pdf, spreadsheet_name, worksheet_name, gsheet_data,
                   crew, nextTask, toolCalls, curriculum_items>>

\* line 154: result.__dict__ raises AttributeError on a str
ResultDict ==
    /\ pc = "result_dict"
    /\ IF result.val = <<"str">>
       THEN pc' = "except" /\ log' = Append(log, E("raise", "result.__dict__"))
       ELSE pc' = "subheader" /\ log' = log
    /\ UNCHANGED <<pressed, uploaded_pdf, spreadsheet_name, worksheet_name, gsheet_data,
                   crew, nextTask, running, completed, toolCalls,
                   curriculum_items, result>>

\* line 155
Subheader ==
    /\ pc = "subheader"
    /\ \E raises \in BOOLEAN :
        IF raises
        THEN pc' = "except" /\ log' = Append(log, E("raise", "st.subheader"))
        ELSE /\ pc' = "markdown"
             /\ log' = Append(log, E("st.subheader", "Comparison Results"))
    /\ UNCHANGED <<pressed, uploaded_pdf, spreadsheet_name, worksheet_name, gsheet_data,
                   crew, nextTask, running, completed, toolCalls,
                   curriculum_items, result>>

\* line 156
Markdown ==
    /\ pc = "markdown"
    /\ \E raises \in BOOLEAN :
        IF raises
        THEN pc' = "except" /\ log' = Append(log, E("raise", "st.markdown"))
        ELSE /\ pc' = "sidebar"
             /\ log' = Append(log, E("st.markdown", "result"))
    /\ UNCHANGED <<pressed, uploaded_pdf, spreadsheet_name, worksheet_name, gsheet_data,
                   crew, nextTask, running, completed, toolCalls,
                   curriculum_items, result>>

\* lines 157-158
Except ==
    /\ pc = "except"
    /\ log' = Append(log, E("st.error", "processing"))
    /\ pc' = "sidebar"
    /\ UNCHANGED <<pressed, uploaded_pdf, spreadsheet_name, worksheet_name, gsheet_data,
                   crew, nextTask, running, completed, toolCalls,
                   curriculum_items, result>>

\* lines 160-170
Sidebar ==
    /\ pc = "sidebar"
    /\ log' = log \o SidebarLog
    /\ pc' = "done"
    /\ UNCHANGED <<pressed, uploaded_pdf, spreadsheet_name, worksheet_name, gsheet_data,
                   crew, nextTask, running, completed, toolCalls,
                   curriculum_items, result>>

\* lines 172-173: the next interaction executes main() again, with fresh
\* locals and a cleared page
Rerun ==
    /\ pc = "done"
    /\ pc' = "start"
    /\ pressed' = FALSE
    /\ uploaded_pdf' = None
    /\ spreadsheet_name' = "Master_Curriculums"
    /\ worksheet_name' = "CyberSecurity"
    /\ gsheet_data' = None
    /\ crew' = None
    /\ nextTask' = 1
    /\ running' = {}
    /\ completed' = {}
    /\ toolCalls' = 0
    /\ curriculum_items' = None
    /\ result' = None
    /\ log' = <<>>

Next ==
    \/ Widgets
    \/ Validate
    \/ LoadCredentials
    \/ FetchGsheetData
    \/ Construct
    \/ Kickoff
    \/ StartTask
    \/ ToolRun
    \/ FinishTask
    \/ ResultDict
    \/ Subheader
    \/ Markdown
    \/ Except
    \/ Sidebar
    \/ Rerun

Spec == Init /\ [][Next]_vars

TypeOK ==
    /\ pc \in {"start", "validate", "credentials", "fetch", "construct",
               "kickoff", "running", "result_dict", "subheader", "markdown",
               "except", "sidebar", "done"}
    /\ pressed \in BOOLEAN
    /\ running \subseteq {"task1", "task2", "task3"}
    /\ completed \subseteq {"task1", "task2", "task3"}
    /\ toolCalls \in 0..MaxToolCalls

----------------------------------------------------------------------------
(* Reference definitions for the extraction properties, written from the   *)
(* statement of the properties: occurrences of a marker, and the trimmed   *)
(* non-empty lines of a span read character by character.                  *)

OccursAt(text, marker, i) ==
    /\ i >= 0
    /\ i + Len(marker) <= Len(text)
    /\ SubSeq(text, i + 1, i + Len(marker)) = marker

Occurrences(text, marker, from) ==
    {i \in from..Len(text) : OccursAt(text, marker, i)}

RECURSIVE TrimLeft(_)
TrimLeft(s) ==
    IF s # <<>> /\ Head(s) \in Whitespace THEN TrimLeft(Tail(s)) ELSE s

RECURSIVE TrimRight(_)
TrimRight(s) ==
    IF s # <<>> /\ s[Len(s)] \in Whitespace
    THEN TrimRight(SubSeq(s, 1, Len(s) - 1)) ELSE s

Trimmed(s) == TrimRight(TrimLeft(s))

\* the lines read so far are done, line is the line being read
RECURSIVE ReadLines(_, _, _)
ReadLines(span, done, line) ==
    LET flush == IF Trimmed(line) = <<>> THEN done
                 ELSE Append(done, Trimmed(line))
    IN IF span = <<>> THEN flush
       ELSE IF Head(span) = "\n" THEN ReadLines(Tail(span), flush, <<>>)
       ELSE ReadLines(Tail(span), done, Append(line, Head(span)))

TrimmedLines(span) == ReadLines(span, <<>>, <<>>)

\* the concatenated page text of the uploaded file
Text == ConcatPages(uploaded_pdf.val)

HasStartMarker == Occurrences(Text, StartMarker, 0) # {}

\* the offset just after the first "Curriculum:"
AfterStart == Min(Occurrences(Text, StartMarker, 0)) + Len(StartMarker)

HasEndMarkerAfter(from) == Occurrences(Text, EndMarker, from) # {}

FirstEndAfter(from) == Min(Occurrences(Text, EndMarker, from))

Extracted == curriculum_items.some

----------------------------------------------------------------------------
(* Claims *)

ConstructEvents == {ConstructLog[i] : i \in 1..Len(ConstructLog)}

Constructed == crew.some \/ \E e \in ConstructEvents : Has(e)

KickoffCalled == Has(E("call", "crew.kickoff"))

FetchCalled == Has(E("call", "fetch_gsheet_data"))

\* C1, as stated: no Agent, Task or Crew object is constructed until both
\* the PDF curriculum items have been extracted and the sheet grid has been
\* fetched.
C1_AsStated == Constructed => (Extracted /\ gsheet_data.some)

\* C1, amended: no Agent, Task or Crew object is constructed until the sheet
\* grid has been fetched without error, and after a failed sheet fetch
\* crew.kickoff is never called; the PDF curriculum items are extracted only
\* by a _run call made after crew.kickoff was entered, hence after the
\* construction.
C1_SheetBeforeConstruction ==
    /\ Constructed =>
          /\ gsheet_data.some
          /\ ~HasOp("raise") \/ KickoffCalled
          /\ \A e \in ConstructEvents :
                Precedes(E("call", "sheet.get_all_values"), e)
    /\ Has(E("st.error", "fetch")) => ~KickoffCalled /\ ~Constructed
    /\ Extracted => KickoffCalled /\ Constructed
    /\ Precedes(E("call", "crew.kickoff"), E("call", "PDFExtractorTool._run"))
    /\ Precedes(E("Crew", "crew"), E("call", "crew.kickoff"))

C1_Witness == Constructed /\ Extracted /\ gsheet_data.some /\ pc = "done"

\* C2: when the trigger is pressed and the PDF, the spreadsheet name or the
\* worksheet name is missing or empty, the request shows the validation
\* error and ends: nothing else is rendered or called, in particular no
\* credentials are loaded, nothing is fetched and no crew is run.
C2_MissingInputAborts ==
    (/\ pressed
     /\ ~uploaded_pdf.some \/ spreadsheet_name = "" \/ worksheet_name = ""
     /\ pc \notin {"start", "validate"})
    => /\ pc = "done"
       /\ log = Append(WidgetLog, E("st.error", "inputs"))
       /\ ~Has(E("call", "st.secrets"))
       /\ ~FetchCalled
       /\ ~KickoffCalled
       /\ ~HasOp("call")

C2_Witness ==
    /\ pressed
    /\ uploaded_pdf.some
    /\ spreadsheet_name = ""
    /\ worksheet_name = "CyberSecurity"
    /\ pc = "done"

FetchRaised == \E i \in 1..Len(FetchCalls) : Has(E("raise", FetchCalls[i]))

\* C3: a failure of any call inside fetch_gsheet_data, and any fetch with a
\* spreadsheet or worksheet name that does not exist, shows the fetch error,
\* returns None, and the request ends with no Agent, Task or Crew built and
\* crew.kickoff not called.
C3_FetchFailureAborts ==
    /\ FetchRaised =>
          /\ Has(E("st.error", "fetch"))
          /\ gsheet_data = None
          /\ pc = "done"
          /\ ~Constructed
          /\ ~KickoffCalled
    /\ (/\ FetchCalled
        /\ ~SpreadsheetExists(spreadsheet_name)
           \/ ~WorksheetExists(worksheet_name))
       => FetchRaised

C3_Witness ==
    /\ Has(E("raise", "spreadsheet.worksheet"))
    /\ worksheet_name = "No_Such_Worksheet"
    /\ pc = "done"

\* C4: when an exception is raised during crew.kickoff or the rendering of
\* its result, one error message is shown and no result output is: the
\* "Comparison Results" header and the result text are shown together or
\* not at all.
C4_NoPartialResult ==
    /\ Has(E("st.error", "processing")) =>
          ~HasOp("st.subheader") /\ ~HasOp("st.markdown")
    /\ pc \in {"sidebar", "done"} =>
          (HasOp("st.subheader") <=> HasOp("st.markdown"))

\* C5: with "Curriculum:" in the text and "End of Curriculum" after it, _run
\* returns exactly the trimmed non-empty lines of the text between the end
\* of the first "Curriculum:" and the first "End of Curriculum" after it.
C5_BetweenMarkers ==
    (Extracted /\ HasStartMarker /\ HasEndMarkerAfter(AfterStart))
    => curriculum_items.val =
          TrimmedLines(SubSeq(Text, AfterStart + 1, FirstEndAfter(AfterStart)))

C5_Witness ==
    /\ Extracted
    /\ HasStartMarker
    /\ HasEndMarkerAfter(AfterStart)
    /\ Len(curriculum_items.val) = 2

\* C6: with "Curriculum:" in the text and no "End of Curriculum" after it,
\* _run returns the trimmed non-empty lines from just after the first
\* "Curriculum:" to the end of the text.
C6_ToEndOfText ==
    (Extracted /\ HasStartMarker /\ ~HasEndMarkerAfter(AfterStart))
    => curriculum_items.val =
          TrimmedLines(SubSeq(Text, AfterStart + 1, Len(Text)))

C6_Witness ==
    /\ Extracted
    /\ HasStartMarker
    /\ ~HasEndMarkerAfter(AfterStart)
    /\ Len(curriculum_items.val) = 2
    /\ Occurrences(Text, EndMarker, 0) # {}

\* the offset that find's -1 plus the length of "Curriculum:" gives
DegenerateStart == 10

\* C9: without "Curriculum:" in the text, _run returns the trimmed non-empty
\* lines of the text from offset 10 up to the first "End of Curriculum" at
\* or after offset 10, or up to the end of the text if there is none.
C9_NoStartMarker ==
    (Extracted /\ ~HasStartMarker)
    => curriculum_items.val =
          TrimmedLines(
             IF Len(Text) <= DegenerateStart THEN <<>>
             ELSE IF HasEndMarkerAfter(DegenerateStart)
                  THEN SubSeq(Text, DegenerateStart + 1,
                              FirstEndAfter(DegenerateStart))
                  ELSE SubSeq(Text, DegenerateStart + 1, Len(Text)))

C9_Witness ==
    /\ Extracted
    /\ ~HasStartMarker
    /\ Len(Text) > DegenerateStart
    /\ HasEndMarkerAfter(DegenerateStart)
    /\ curriculum_items.val # <<>>

StartEvents == SelectSeq(log, LAMBDA e : e[1] = "start")

IsPrefix(p, q) == Len(p) <= Len(q) /\ SubSeq(q, 1, Len(p)) = p

\* C7: the crew holds task1, task2, task3 in that order under the sequential
\* process, the tasks start in that order, task3 starts only when task1 and
\* task2 have completed, and at most one task runs at a time.
C7_SequentialOrder ==
    crew.some =>
       /\ crew.val.tasks = <<"task1", "task2", "task3">>
       /\ crew.val.process = "sequential"
       /\ IsPrefix(StartEvents, <<E("start", "task1"), E("start", "task2"),
                                  E("start", "task3")>>)
       /\ Cardinality(running) <= 1
       /\ \A t \in running \cup completed : TaskContext[t] \subseteq completed
       /\ Has(E("start", "task3")) => {"task1", "task2"} \subseteq completed

C7_Witness ==
    /\ crew.some
    /\ completed = {"task1", "task2", "task3"}
    /\ Has(E("st.markdown", "result"))

\* C8: a failure while loading the service-account credentials shows the
\* credentials error and ends the request before fetch_gsheet_data is
\* called, so nothing is fetched, built or run.
C8_CredentialFailureAborts ==
    Has(E("raise", "st.secrets")) =>
       /\ Has(E("st.error", "credentials"))
       /\ pc = "done"
       /\ ~FetchCalled
       /\ ~Constructed
       /\ ~KickoffCalled

C8_Witness ==
    /\ Has(E("raise", "st.secrets"))
    /\ pressed
    /\ uploaded_pdf.some
    /\ pc = "done"

SidebarRendered == \A i \in 1..Len(SidebarLog) : Has(SidebarLog[i])

\* C10: every execution of main renders the sidebar, whatever the outcome of
\* the request.
C10_SidebarAlways == pc = "done" => SidebarRendered

====
